---- MODULE Spec2Model ----
(***************************************************************************)
(* Model of src/src/acoustic_no/utils/eval.py: the batch evaluator         *)
(* (evaluate_models), the single-sample plot (plot_inference_results),     *)
(* the autoregressive rollout (sample_iterative) and the presenter they    *)
(* end in (plot_inference_results_direct).                                 *)
(*                                                                         *)
(* A tensor of frames is a sequence of integers: frame f of a tensor is a  *)
(* field of spatial height h whose cells all hold the integer, so that the *)
(* shape (h) and the values are tracked separately.  Python indices are    *)
(* 0-based; At and Slice translate them.  Metric values are fixed-point    *)
(* integers (thousandths); averages are exact fractions <<num, den>>.      *)
(***************************************************************************)
EXTENDS Integers, Sequences, FiniteSets, TLC

\* ---------------------------------------------------------------- bounds
MaxN == 5
MaxDepth == 3

\* ------------------------------------------------------- python helpers
Min(a, b) == IF a < b THEN a ELSE b
Max(a, b) == IF a < b THEN b ELSE a
Abs(a) == IF a < 0 THEN 0 - a ELSE a

\* s[k] for a 0-based index k
At(s, k) == s[k + 1]

\* s[a:b] for 0 <= a, 0 <= b (python clamps both ends to the length)
Slice(s, a, b) == SubSeq(s, Min(a, Len(s)) + 1, Min(b, Len(s)))

RECURSIVE Flatten(_)
\* torch.stack(windows).flatten(0, 1): the windows laid end to end
Flatten(ws) == IF ws = << >> THEN << >> ELSE Head(ws) \o Flatten(Tail(ws))

RECURSIVE GCD(_, _)
GCD(a, b) == IF b = 0 THEN a ELSE GCD(b, a % b)

\* the exact quotient n / d (d > 0) in lowest terms
Rat(n, d) == LET g == GCD(n, d) IN IF g = 0 THEN <<0, 1>> ELSE <<n \div g, d \div g>>

\* float += : add the fixed-point value v to the fraction r
RatAdd(r, v) == Rat(r[1] + v * r[2], r[2])

RECURSIVE ISqrtFrom(_, _)
ISqrtFrom(n, r) == IF (r + 1) * (r + 1) > n THEN r ELSE ISqrtFrom(n, r + 1)

\* floor of the square root
ISqrt(n) == ISqrtFrom(n, 0)

\* a / b in thousandths
Fixed(a, b) == (1000 * a) \div b

RECURSIVE SumSeq(_)
SumSeq(s) == IF s = << >> THEN 0 ELSE Head(s) + SumSeq(Tail(s))

RECURSIVE MaxSeq(_)
MaxSeq(s) == IF s = << >> THEN 0 ELSE Max(Head(s), MaxSeq(Tail(s)))

\* ------------------------------------------------------ torch semantics
\* two sizes broadcast against each other when equal or when one is 1
Broadcastable(a, b) == a = b \/ a = 1 \/ b = 1

\* an in-place copy dst[...] = src broadcasts src only
Assignable(src, dst) == src = dst \/ src = 1

\* pred - y, elementwise over the frames
Diff(pred, y) == [f \in 1..Min(Len(pred), Len(y)) |-> pred[f] - y[f]]

SquaresOf(t) == [f \in 1..Len(t) |-> t[f] * t[f]]

\* torch.nn.MSELoss(): mean of the squared differences
MseLoss(pred, y) == Fixed(SumSeq(SquaresOf(Diff(pred, y))), Len(Diff(pred, y)))

\* torch.norm(t, p=2), rounded down
Norm2(t) == ISqrt(SumSeq(SquaresOf(t)))

\* torch.norm(pred - y, p=2) / torch.norm(y, p=2)
RelL2(pred, y) == Fixed(Norm2(Diff(pred, y)), Norm2(y))

\* torch.max(torch.abs(pred - y))
MaxError(pred, y) == Fixed(MaxSeq([f \in 1..Len(Diff(pred, y)) |-> Abs(Diff(pred, y)[f])]), 1)

\* neuralop LpLoss(d=2, p=2): relative norm over the two spatial
\* dimensions of every frame, summed over the frames
L2Loss(pred, y) ==
    SumSeq([f \in 1..Len(Diff(pred, y)) |-> Fixed(Abs(Diff(pred, y)[f]), Abs(y[f]))])

\* neuralop H1Loss(d=2): as L2Loss plus the spatial-gradient terms, which
\* vanish on fields that are constant in space
H1Loss(pred, y) ==
    SumSeq([f \in 1..Len(Diff(pred, y)) |-> Fixed(Abs(Diff(pred, y)[f]), Abs(y[f]))])

\* ------------------------------------------------------------ externals
\* Sample sources (the dataset class is not part of eval.py).  Sample i has
\* an input x and a target y of depth frames each.
\* consecutive windows of one recording: sample i starts one step after i-1
SlidingSource(n, d) ==
    [s \in 1..n |-> [x |-> [f \in 1..d |-> s + f - 1],
                     y |-> [f \in 1..d |-> s + f]]]

\* unrelated recordings: no frame is shared between samples
IndependentSource(n, d) ==
    [s \in 1..n |-> [x |-> [f \in 1..d |-> 10 * s + f],
                     y |-> [f \in 1..d |-> 10 * s + f + 5]]]

Sources(n, d) == {SlidingSource(n, d), IndependentSource(n, d)}

ModelNames == {"identity", "step", "double"}

\* the predictors: pure functions of their input
Forward(name, xin) ==
    CASE name = "identity" -> xin
      [] name = "step"     -> [f \in 1..Len(xin) |-> xin[1] + f]
      [] OTHER             -> [f \in 1..Len(xin) |-> 2 * xin[f]]

Kinds == {"pressure", "animation", "error", "contour"}
ValidKinds == {"pressure", "animation", "error"}

None == "None"

\* index is None: the absent index is modelled as a negative one
IsNone(ix) == ix < 0

ZeroRecord == [mse |-> <<0, 1>>, l2_loss |-> <<0, 1>>, h1_loss |-> <<0, 1>>,
               rel_l2 |-> <<0, 1>>, max_error |-> <<0, 1>>]

ZeroTotals == [l2 |-> <<0, 1>>, h1 |-> <<0, 1>>, mse |-> <<0, 1>>, max_error |-> <<0, 1>>]

\* ---------------------------------------------------------------- state
VARIABLES
    op,               \* the entry point being run
    dataset,          \* the sample source: sequence of [x, y]
    depth,            \* dataset.depth
    H,                \* spatial height of the dataset's fields
    models,           \* evaluate_models: names in dict order; else one name
    outH,             \* spatial height of each model's output
    kind, compute_metrics, print_results,
    index,            \* the index argument (negative: None)
    pc,               \* position in the running function
    i,                \* loop index
    j,                \* evaluate_models: position in models.items()
    init_cond,        \* rollout state: [v, h] of the carried frame
    x,                \* the input tensor of the current iteration
    pred,             \* the current prediction
    y_true_w, y_pred_w,   \* rollout: lists of appended windows
    y_true, y_pred,   \* stitched sequences / presenter arguments
    totals,           \* rollout metric accumulators
    avg,              \* rollout averaged metrics
    results,          \* evaluate_models results dictionary
    printed,          \* lines written to stdout, as tags
    rendered,         \* what the presenter drew
    error,            \* exception that left the function
    calls             \* log of predictor invocations [name, i, x, out]

vars == <<op, dataset, depth, H, models, outH, kind, index, compute_metrics,
          print_results, pc, i, j, init_cond, x, pred, y_true_w, y_pred_w,
          y_true, y_pred, totals, avg, results, printed, rendered, error, calls>>

params == <<op, depth, H, models, outH, kind, compute_metrics, print_results>>

N == Len(dataset)

\* ------------------------------------------------ rollout building blocks
\* data["x"].detach().clone()
Clone(t) == [f \in 1..Len(t) |-> t[f]]

\* faulty variant of Seam: the first frame is left as the dataset gave it
SeamKeep(xc, v) == xc

\* x[0, :, :] = init_cond
Seam(xc, v) == [xc EXCEPT ![1] = v]

\* faulty variant of SourceAfterSeam: x aliases the stored tensor, so the
\* write goes through to sample k
SourceAliased(ds, k, xw) == [ds EXCEPT ![k + 1].x = xw]

\* the sample source after the write of line 321: x is a clone, so the
\* write stays in the copy
SourceAfterSeam(ds, k, xw) == ds

\* faulty variant of Carry: pred[0, :, :]
CarryFirst(p) == p[1]

\* pred[-1, :, :]
Carry(p) == p[Len(p)]

\* faulty variant of Fresh: p[1:]
FreshTail(t) == SubSeq(t, 2, Len(t))

\* p[:-1]
Fresh(t) == SubSeq(t, 1, Len(t) - 1)

\* faulty variant of Stride: i += dataset.depth
StrideDepth(d) == d

\* i += dataset.depth - 1
Stride(d) == d - 1

\* faulty variant of Truncate: no cut
TruncateNone(s, n) == s

\* [:len(dataset)]
Truncate(s, n) == Slice(s, 0, n)

\* faulty variant of Average: total / (total_samples + 1)
AverageOffByOne(total, n) == Rat(total[1], total[2] * (n + 1))

\* total / total_samples
Average(total, n) == Rat(total[1], total[2] * n)

NoFrame == [v |-> 0, h |-> 0]

\* ----------------------------------------------------------------- Init
ModelLists ==
    {<<a>> : a \in ModelNames} \cup
    {ms \in {<<a, b>> : a \in ModelNames, b \in ModelNames} : ms[1] # ms[2]}

Locals ==
    /\ pc = "start" /\ i = 0 /\ j = 0
    /\ init_cond = NoFrame
    /\ x = << >> /\ pred = << >>
    /\ y_true_w = << >> /\ y_pred_w = << >>
    /\ y_true = << >> /\ y_pred = << >>
    /\ totals = ZeroTotals /\ avg = ZeroTotals
    /\ results = [name \in {} |-> ZeroRecord]
    /\ printed = << >> /\ rendered = None /\ error = None
    /\ calls = << >>

Init ==
    /\ \E n \in 1..MaxN, d \in 2..MaxDepth :
          /\ depth = d
          /\ dataset \in Sources(n, d)
          /\ \/ /\ op = "evaluate_models"
                /\ models \in ModelLists
                /\ kind = "pressure" /\ index = -1
                /\ compute_metrics = FALSE
                /\ print_results \in BOOLEAN
             \/ /\ op \in {"plot_inference_results", "sample_iterative"}
                /\ models \in {<<a>> : a \in ModelNames}
                /\ kind \in Kinds
                /\ index \in -1..(n - 1)
                /\ compute_metrics \in
                      IF op = "sample_iterative" THEN BOOLEAN ELSE {FALSE}
                /\ print_results = FALSE
    /\ H \in {2, 3}
    /\ outH \in [{models[k] : k \in 1..Len(models)} -> 1..3]
    /\ Locals

\* ------------------------------------------------------ sample_iterative
\* lines 301-310
SiInit ==
    /\ op = "sample_iterative" /\ pc = "start"
    /\ y_true_w' = << >> /\ y_pred_w' = << >>
    /\ i' = 0
    /\ init_cond' = [v |-> At(At(dataset, 0).x, 0), h |-> H]
    /\ pc' = "si_loop"
    /\ UNCHANGED <<params, dataset, index, j, x, pred, y_true, y_pred, totals,
                   avg, results, printed, rendered, error, calls>>

\* lines 313-321: the loop test, the fetch and the seam
SiFetch ==
    /\ pc = "si_loop" /\ i < N
    /\ IF Assignable(init_cond.h, H)
         THEN /\ x' = Seam(Clone(At(dataset, i).x), init_cond.v)
              /\ dataset' = SourceAfterSeam(dataset, i, x')
              /\ pc' = "si_predict"
              /\ error' = error
         ELSE /\ x' = Clone(At(dataset, i).x)
              /\ dataset' = dataset
              /\ pc' = "raised"
              /\ error' = "RuntimeError"
    /\ UNCHANGED <<params, index, i, j, init_cond, pred, y_true_w, y_pred_w,
                   y_true, y_pred, totals, avg, results, printed, rendered, calls>>

\* lines 324-325
SiPredict ==
    /\ pc = "si_predict"
    /\ pred' = Forward(models[1], x)
    /\ calls' = Append(calls, [name |-> models[1], i |-> i, x |-> x, out |-> pred'])
    /\ pc' = "si_carry"
    /\ UNCHANGED <<params, dataset, index, i, j, init_cond, x, y_true_w, y_pred_w,
                   y_true, y_pred, totals, avg, results, printed, rendered, error>>

\* line 328
SiCarry ==
    /\ pc = "si_carry"
    /\ init_cond' = [v |-> Carry(pred), h |-> outH[models[1]]]
    /\ pc' = "si_append"
    /\ UNCHANGED <<params, dataset, index, i, j, x, pred, y_true_w, y_pred_w,
                   y_true, y_pred, totals, avg, results, printed, rendered, error, calls>>

\* lines 331-334
SiAppend ==
    /\ pc = "si_append"
    /\ y_true_w' = Append(y_true_w, Fresh(At(dataset, i).y))
    /\ y_pred_w' = Append(y_pred_w, Fresh(pred))
    /\ i' = i + Stride(depth)
    /\ pc' = "si_loop"
    /\ UNCHANGED <<params, dataset, index, j, init_cond, x, pred, y_true, y_pred,
                   totals, avg, results, printed, rendered, error, calls>>

\* lines 313, 337-357: the loop exit, the stitch and the metric set-up
SiStitch ==
    /\ pc = "si_loop" /\ ~(i < N)
    /\ y_true' = Truncate(Flatten(y_true_w), N)
    /\ y_pred' = Truncate(Flatten(y_pred_w), N)
    /\ printed' = Append(printed, "sampled")
    /\ totals' = ZeroTotals
    /\ i' = IF compute_metrics THEN 0 ELSE i
    /\ pc' = IF compute_metrics THEN "si_metrics" ELSE "si_window"
    /\ UNCHANGED <<params, dataset, index, j, init_cond, x, pred, y_true_w,
                   y_pred_w, avg, results, rendered, error, calls>>

\* lines 359-377: one pair of the metric loop
SiMetric ==
    /\ pc = "si_metrics" /\ i < N
    /\ IF Broadcastable(outH[models[1]], H)
         THEN /\ totals' =
                   [l2 |-> RatAdd(totals.l2, L2Loss(<<At(y_pred, i)>>, <<At(y_true, i)>>)),
                    h1 |-> RatAdd(totals.h1, H1Loss(<<At(y_pred, i)>>, <<At(y_true, i)>>)),
                    mse |-> RatAdd(totals.mse, MseLoss(<<At(y_pred, i)>>, <<At(y_true, i)>>)),
                    max_error |-> RatAdd(totals.max_error,
                                         MaxError(<<At(y_pred, i)>>, <<At(y_true, i)>>))]
              /\ i' = i + 1
              /\ pc' = pc /\ error' = error
         ELSE /\ totals' = totals /\ i' = i
              /\ pc' = "raised" /\ error' = "RuntimeError"
    /\ UNCHANGED <<params, dataset, index, j, init_cond, x, pred, y_true_w, y_pred_w,
                   y_true, y_pred, avg, results, printed, rendered, calls>>

\* lines 359, 380-391: the loop exit, the averages and the report
SiAverage ==
    /\ pc = "si_metrics" /\ ~(i < N)
    /\ avg' = [l2 |-> Average(totals.l2, N), h1 |-> Average(totals.h1, N),
               mse |-> Average(totals.mse, N),
               max_error |-> Average(totals.max_error, N)]
    /\ printed' = Append(printed, "metrics")
    /\ pc' = "si_window"
    /\ UNCHANGED <<params, dataset, index, i, j, init_cond, x, pred, y_true_w,
                   y_pred_w, y_true, y_pred, totals, results, rendered, error, calls>>

\* lines 393-413: the presentation window
SiWindow ==
    /\ pc = "si_window"
    /\ index' = CASE kind = "pressure" /\ IsNone(index) -> N \div 2
                  [] kind = "animation" /\ IsNone(index) -> depth
                  [] OTHER -> index
    /\ LET lo == CASE kind = "pressure" -> index'
                   [] kind = "error" /\ ~IsNone(index) -> index
                   [] kind = "animation" -> N \div 2
                   [] OTHER -> 0
           hi == CASE kind = "pressure" -> index' + depth
                   [] kind = "error" /\ ~IsNone(index) -> index + depth
                   [] kind = "animation" -> N \div 2 + index'
                   [] OTHER -> N
       IN /\ y_pred' = Slice(y_pred, lo, hi)
          /\ y_true' = Slice(y_true, lo, hi)
    /\ pc' = "plot"
    /\ UNCHANGED <<params, dataset, i, j, init_cond, x, pred, y_true_w, y_pred_w,
                   totals, avg, results, printed, rendered, error, calls>>

\* lines 148-235: plot_inference_results_direct(y_pred, y_true, kind)
PlotDirect ==
    /\ pc = "plot"
    /\ LET ok == Broadcastable(outH[models[1]], H)
           out == CASE kind = "pressure" ->
                         IF y_pred = << >> \/ y_true = << >> THEN <<None, "IndexError">>
                         ELSE IF ~ok THEN <<None, "ValueError: broadcast">>
                         ELSE <<"pressure", None>>
                    [] kind = "animation" ->
                         IF y_pred = << >> \/ y_true = << >> THEN <<None, "ValueError: empty">>
                         ELSE <<"animation", None>>
                    [] kind = "error" ->
                         IF ~ok THEN <<None, "ValueError: broadcast">>
                         ELSE <<"error", None>>
                    [] OTHER -> <<None, "ValueError: Unknown kind">>
       IN /\ rendered' = out[1]
          /\ error' = out[2]
          /\ pc' = IF out[2] = None THEN "done" ELSE "raised"
    /\ printed' = IF kind = "animation" /\ y_pred # << >> /\ y_true # << >>
                    THEN printed \o <<"Creating prediction animation...", "Animation saved.">>
                    ELSE IF kind = "animation" THEN Append(printed, "Creating prediction animation...")
                    ELSE IF kind = "error" /\ Broadcastable(outH[models[1]], H)
                    THEN printed \o <<"Plotting error evolution...", "Error plots saved.">>
                    ELSE printed
    /\ UNCHANGED <<params, dataset, index, i, j, init_cond, x, pred, y_true_w, y_pred_w,
                   y_true, y_pred, totals, avg, results, calls>>

\* ------------------------------------------------------- evaluate_models
\* lines 25-48
EmInit ==
    /\ op = "evaluate_models" /\ pc = "start"
    /\ results' = [name \in {models[k] : k \in 1..Len(models)} |-> ZeroRecord]
    /\ i' = 0
    /\ pc' = "em_loop"
    /\ UNCHANGED <<params, dataset, index, j, init_cond, x, pred, y_true_w, y_pred_w,
                   y_true, y_pred, totals, avg, printed, rendered, error, calls>>

\* lines 52-55: the loop test and the fetch
EmFetch ==
    /\ pc = "em_loop" /\ i < N
    /\ x' = At(dataset, i).x
    /\ y_true' = At(dataset, i).y
    /\ j' = 1
    /\ pc' = "em_model"
    /\ UNCHANGED <<params, dataset, index, i, init_cond, pred, y_true_w, y_pred_w,
                   y_pred, totals, avg, results, printed, rendered, error, calls>>

\* lines 58-67: one model on the current sample
EmModel ==
    /\ pc = "em_model"
    /\ LET name == models[j]
           out == Forward(name, x)
       IN /\ y_pred' = out
          /\ calls' = Append(calls, [name |-> name, i |-> i, x |-> x, out |-> out])
          /\ IF Broadcastable(outH[name], H)
               THEN /\ results' = [results EXCEPT ![name] =
                          [mse |-> RatAdd(@.mse, MseLoss(out, y_true)),
                           l2_loss |-> RatAdd(@.l2_loss, L2Loss(out, y_true)),
                           h1_loss |-> RatAdd(@.h1_loss, H1Loss(out, y_true)),
                           rel_l2 |-> RatAdd(@.rel_l2, RelL2(out, y_true)),
                           max_error |-> RatAdd(@.max_error, MaxError(out, y_true))]]
                    /\ IF j < Len(models)
                         THEN j' = j + 1 /\ i' = i /\ pc' = pc
                         ELSE j' = j /\ i' = i + 1 /\ pc' = "em_loop"
                    /\ error' = error
               ELSE /\ results' = results /\ j' = j /\ i' = i
                    /\ pc' = "raised" /\ error' = "RuntimeError"
    /\ UNCHANGED <<params, dataset, index, init_cond, x, pred, y_true_w, y_pred_w,
                   y_true, totals, avg, printed, rendered>>

\* lines 52, 70-75: the loop exit and the averages
EmAverage ==
    /\ pc = "em_loop" /\ ~(i < N)
    /\ results' = [name \in DOMAIN results |->
                     [mse |-> Average(results[name].mse, N),
                      l2_loss |-> Average(results[name].l2_loss, N),
                      h1_loss |-> Average(results[name].h1_loss, N),
                      rel_l2 |-> Average(results[name].rel_l2, N),
                      max_error |-> Average(results[name].max_error, N)]]
    /\ pc' = "em_print"
    /\ UNCHANGED <<params, dataset, index, i, j, init_cond, x, pred, y_true_w, y_pred_w,
                   y_true, y_pred, totals, avg, printed, rendered, error, calls>>

\* lines 78-88: the report and the return
EmPrint ==
    /\ pc = "em_print"
    /\ printed' = IF print_results THEN printed \o models ELSE printed
    /\ pc' = "done"
    /\ UNCHANGED <<params, dataset, index, i, j, init_cond, x, pred, y_true_w, y_pred_w,
                   y_true, y_pred, totals, avg, results, rendered, error, calls>>

\* ------------------------------------------------ plot_inference_results
\* lines 253-263
PrFetch ==
    /\ op = "plot_inference_results" /\ pc = "start"
    /\ index' = IF IsNone(index) THEN N \div 2 ELSE index
    /\ x' = At(dataset, index').x
    /\ pc' = "pr_predict"
    /\ UNCHANGED <<params, dataset, i, j, init_cond, pred, y_true_w, y_pred_w,
                   y_true, y_pred, totals, avg, results, printed, rendered, error, calls>>

\* lines 266-270
PrPredict ==
    /\ pc = "pr_predict"
    /\ pred' = Forward(models[1], x)
    /\ calls' = Append(calls, [name |-> models[1], i |-> index, x |-> x, out |-> pred'])
    /\ y_pred' = pred'
    /\ y_true' = At(dataset, index).y
    /\ pc' = "plot"
    /\ UNCHANGED <<params, dataset, index, i, j, init_cond, x, y_true_w, y_pred_w,
                   totals, avg, results, printed, rendered, error>>

Next ==
    \/ SiInit \/ SiFetch \/ SiPredict \/ SiCarry \/ SiAppend \/ SiStitch
    \/ SiMetric \/ SiAverage \/ SiWindow \/ PlotDirect
    \/ EmInit \/ EmFetch \/ EmModel \/ EmAverage \/ EmPrint
    \/ PrFetch \/ PrPredict

Spec == Init /\ [][Next]_vars

\* ------------------------------------------------------------ properties
Rollout == op = "sample_iterative"

\* the rollout loop has ended and the sequences are stitched, not yet windowed
Stitched == Rollout /\ pc \in {"si_metrics", "si_window"}

Last(t) == t[Len(t)]

\* start index of the window that covers the 0-based index k
WindowOf(k) == (depth - 1) * (k \div (depth - 1))

\* C1: when the rollout loop of sample_iterative has finished, the stitched
\* y_true and y_pred both have length exactly N, whether or not N is a
\* multiple of depth - 1.
C1_StitchedLength == Stitched => Len(y_true) = N /\ Len(y_pred) = N

\* the final window overshot N and the stitched sequences were cut to N
C1_Witness ==
    /\ Stitched /\ N % (depth - 1) # 0
    /\ Len(Flatten(y_pred_w)) > N /\ Len(y_pred) = N /\ Len(y_true) = N

\* C2: the first input frame given to the predictor is the dataset's first
\* initial condition in window 0 and the last frame predicted by the
\* immediately preceding window in every later window; init_cond keeps its
\* value through the predictor call and is reassigned once, right after it.
C2_SeamFromPreviousWindow ==
    Rollout =>
      /\ \A k \in 1..Len(calls) :
            At(calls[k].x, 0) = IF k = 1 THEN At(At(dataset, 0).x, 0)
                                         ELSE Last(calls[k - 1].out)
      /\ pc \in {"si_predict", "si_carry"} => init_cond.v = At(x, 0)
      /\ (pc = "si_append" \/ (pc = "si_loop" /\ calls # << >>)) =>
            init_cond.v = Last(Last(calls).out)

\* a third window whose seed is the second window's last prediction and
\* neither its own ground-truth frame nor the first window's prediction
C2_Witness ==
    /\ Rollout /\ pc = "si_carry" /\ Len(calls) = 3
    /\ At(calls[3].x, 0) = Last(calls[2].out)
    /\ At(calls[3].x, 0) # At(At(dataset, i).x, 0)
    /\ At(calls[3].x, 0) # Last(calls[1].out)

\* the sum of one metric of one predictor over all samples of the source
SumOverSamples(M(_, _), name) ==
    SumSeq([s \in 1..N |-> M(Forward(name, dataset[s].x), dataset[s].y)])

\* C3: evaluate_models invokes every predictor once on every sample index,
\* in increasing source order, and returns for each predictor and each of
\* the five metrics the sum of that predictor's own per-sample values
\* divided by N, whatever other predictors are in the mapping.
C3_BatchAverages ==
    (op = "evaluate_models" /\ pc \in {"em_print", "done"}) =>
      /\ Len(calls) = N * Len(models)
      /\ \A k \in 1..Len(calls) :
            /\ calls[k].i = (k - 1) \div Len(models)
            /\ calls[k].name = models[((k - 1) % Len(models)) + 1]
            /\ calls[k].x = At(dataset, calls[k].i).x
      /\ \A name \in DOMAIN results :
            /\ results[name].mse = Rat(SumOverSamples(MseLoss, name), N)
            /\ results[name].l2_loss = Rat(SumOverSamples(L2Loss, name), N)
            /\ results[name].h1_loss = Rat(SumOverSamples(H1Loss, name), N)
            /\ results[name].rel_l2 = Rat(SumOverSamples(RelL2, name), N)
            /\ results[name].max_error = Rat(SumOverSamples(MaxError, name), N)

\* two predictors evaluated over several samples, with different averages
C3_Witness ==
    /\ op = "evaluate_models" /\ pc = "done" /\ Len(models) = 2 /\ N >= 3
    /\ results[models[1]].mse # results[models[2]].mse
    /\ results[models[1]].mse[2] # 1

\* frame k (0-based) of the full stitched prediction, from the call log
FullPred(k) == At(calls[(k \div (depth - 1)) + 1].out, k - WindowOf(k))

\* frame k (0-based) of the full stitched truth, from the source
FullTrue(k) == At(At(dataset, WindowOf(k)).y, k - WindowOf(k))

\* the sum of one metric over the N aligned single-frame pairs
SumOverPairs(M(_, _)) ==
    SumSeq([k \in 1..N |-> M(<<FullPred(k - 1)>>, <<FullTrue(k - 1)>>)])

\* C4: the rollout metrics are accumulated over all N index-aligned pairs
\* of the full stitched sequence, one pair at a time, and divided by N;
\* they are computed before the presentation window is cut and do not
\* depend on kind or index.
C4_RolloutAverages ==
    (Rollout /\ Len(printed) >= 2 /\ printed[2] = "metrics") =>
      /\ avg.mse = Rat(SumOverPairs(MseLoss), N)
      /\ avg.l2 = Rat(SumOverPairs(L2Loss), N)
      /\ avg.h1 = Rat(SumOverPairs(H1Loss), N)
      /\ avg.max_error = Rat(SumOverPairs(MaxError), N)
      /\ pc = "si_window" => Len(y_pred) = N /\ Len(y_true) = N

\* metrics over all N pairs although the presenter got a shorter window
C4_Witness ==
    /\ Rollout /\ pc = "done" /\ Len(printed) >= 2 /\ printed[2] = "metrics"
    /\ kind = "pressure" /\ Len(y_pred) < N /\ N >= 4
    /\ avg.mse[1] > 0 /\ avg.mse # totals.mse

\* the stitched output of evaluating every window on its unmodified input
IndependentWindows ==
    Truncate(Flatten([w \in 1..((N + depth - 2) \div (depth - 1)) |->
                        Fresh(Forward(models[1], At(dataset, (w - 1) * (depth - 1)).x))]), N)

\* after each window the carried frame is the next window's own first frame,
\* and the stitched prediction is that of independent evaluation
DegeneratesToIndependent ==
    /\ (pc = "si_loop" /\ calls # << >> /\ i < N) =>
          init_cond.v = At(At(dataset, i).x, 0)
    /\ Stitched => y_pred = IndependentWindows

\* every window's own first input frame is the last input frame of the
\* window before it
Chained ==
    \A s \in 0..(N - 1) :
       s + depth - 1 < N => At(At(dataset, s + depth - 1).x, 0) = Last(At(dataset, s).x)

\* C5 as stated: with the identity predictor the carried init_cond equals
\* the next window's own first input frame at every step, and the rollout
\* output equals independent per-window evaluation.
C5_Original == (Rollout /\ models[1] = "identity") => DegeneratesToIndependent

\* C5 amended: the same, for a source whose windows are chained (the first
\* input frame of source[i + depth - 1] is the last input frame of source[i]).
C5_Amended ==
    (Rollout /\ models[1] = "identity" /\ Chained) => DegeneratesToIndependent

\* three chained windows rolled out by the identity predictor
C5_Witness ==
    /\ Rollout /\ models[1] = "identity" /\ Chained /\ pc = "si_window"
    /\ Len(calls) >= 3 /\ y_pred = IndependentWindows
    /\ Last(calls[2].out) = At(At(dataset, calls[3].i).x, 0)

\* C6: a prediction whose shape differs from its target's is detected
\* before any metric of that pair is computed or accumulated, and the call
\* fails: the mismatching call is the last one, and no rollout pair is
\* ever accumulated.
C6_MismatchDetectedFirst ==
    /\ op = "evaluate_models" =>
          \A k \in 1..Len(calls) :
             outH[calls[k].name] # H => (k = Len(calls) /\ pc = "raised")
    /\ (Rollout /\ outH[models[1]] # H) =>
          /\ ~(pc = "si_metrics" /\ i > 0)
          /\ \A k \in 1..Len(printed) : printed[k] # "metrics"

\* C7: a kind outside 'pressure', 'animation', 'error' is rejected at once:
\* no predictor invocation, metric computation or report happens, nothing
\* is rendered, and the call ends in the unknown-kind error.
C7_InvalidKindRejectedFirst ==
    (op \in {"sample_iterative", "plot_inference_results"} /\ kind \notin ValidKinds) =>
      /\ calls = << >>
      /\ totals = ZeroTotals /\ avg = ZeroTotals
      /\ \A k \in 1..Len(printed) : printed[k] # "metrics"
      /\ rendered = None
      /\ pc # "done"
      /\ pc = "raised" => error = "ValueError: Unknown kind"

\* C8: the stitched sequences are aligned to the source: entry k is frame
\* k - w of the target of source[w] and of the prediction of the window
\* started at w, w = (depth-1) * floor(k / (depth-1)); no window's last
\* frame is emitted and truncation cuts only the tail of the final window.
C8_IndexAligned ==
    Stitched =>
      /\ Len(y_true) = N /\ Len(y_pred) = N
      /\ \A k \in 0..(N - 1) :
            /\ k - WindowOf(k) < depth - 1
            /\ At(y_true, k) = At(At(dataset, WindowOf(k)).y, k - WindowOf(k))
            /\ \E c \in 1..Len(calls) :
                  /\ calls[c].i = WindowOf(k)
                  /\ At(y_pred, k) = At(calls[c].out, k - WindowOf(k))

\* N = 5, depth = 3 on unrelated samples: the window at 4 gives one frame
C8_Witness ==
    /\ Stitched /\ N = 5 /\ depth = 3 /\ dataset = IndependentSource(5, 3)
    /\ Len(y_true) = 5 /\ At(y_true, 4) = At(At(dataset, 4).y, 0)
    /\ At(y_pred, 4) = At(calls[3].out, 0)

\* C9: the rollout invokes the predictor on the window starts 0, depth-1,
\* 2(depth-1), ... below N, once each, in increasing order, and stops
\* after ceil(N / (depth-1)) invocations.
C9_WindowStarts ==
    Rollout =>
      /\ \A k \in 1..Len(calls) :
            calls[k].i = (k - 1) * (depth - 1) /\ calls[k].i < N
      /\ (printed # << >> /\ printed[1] = "sampled") =>
            Len(calls) = (N + depth - 2) \div (depth - 1)

\* N = 5, depth = 3: the windows started at 0, 2, 4 and the loop ended
C9_Witness ==
    /\ Rollout /\ N = 5 /\ depth = 3 /\ pc = "si_window"
    /\ [k \in 1..Len(calls) |-> calls[k].i] = <<0, 2, 4>>

\* a rollout with depth 2 that visited every sample index once
C9_WitnessStrideOne ==
    /\ Rollout /\ N = 4 /\ depth = 2 /\ pc = "si_window"
    /\ [k \in 1..Len(calls) |-> calls[k].i] = <<0, 1, 2, 3>>

====
